---- MODULE Spec2Model ----
(***************************************************************************)
(* Model of prepare_files.py: the schema parser (parse_schema), the header *)
(* reconciliation (update_header), the closest-name search (find_closest), *)
(* the table resolution and row rewriting of merge_files, and the          *)
(* directory loop of run.                                                  *)
(*                                                                         *)
(* Python str values are TLA+ strings; a character is a string of length   *)
(* 1 (SubSeq(s, i, i)).  Python list indices are kept 0-based wherever the *)
(* program stores them (cols_indices).                                     *)
(***************************************************************************)
EXTENDS Integers, Sequences, FiniteSets, TLC

VARIABLES
    pc,            \* position of the modelled call
    schema,        \* the parsed schema: table name -> columns
    table,         \* update_header: argument table
    header,        \* update_header: argument header (the raw header line)
    raw_titles,    \* update_header: the prefixed titles (line 181)
    matches,       \* update_header: current title -> schema column (line 233)
    scores,        \* update_header: current title -> score of its best candidate
    new_header,    \* update_header: first component of the returned tuple
    cols_indices,  \* update_header: second component of the returned tuple
    line,          \* merge_files: the row read by csv.reader (line 346)
    out_line,      \* merge_files: the row handed to the writer (lines 347-350)
    folder,        \* merge_files: folder.stem
    output_file,   \* merge_files: output_file.name
    csv_table,     \* the loader index: (CSV file name, table) in insertion order
    closest,       \* merge_files: the value of find_closest at line 303
    ddl,           \* parse_schema: the blocks the schema file is made of
    in_fd,         \* parse_schema: the lines of the schema file
    lineno,        \* parse_schema: number of lines read so far
    in_comment,    \* parse_schema: local in_comment
    in_table_schema, \* parse_schema: local in_table_schema
    dataset,       \* run: the children of root/static and of root/dynamic
    part,          \* run: 1 while in "static", 2 while in "dynamic"
    child,         \* run: number of children of the part visited so far
    nb_files,      \* run: local nb_files
    written        \* merge_files: the rows written to the last output file

hvars == <<pc, schema, table, header, raw_titles, matches, scores, new_header,
           cols_indices, line, out_line>>

tvars == <<folder, output_file, csv_table, closest>>

pvars == <<ddl, in_fd, lineno, in_comment, in_table_schema>>

rvars == <<dataset, part, child, nb_files, written>>

vars == <<hvars, tvars, pvars, rvars>>

----------------------------------------------------------------------------
(* Characters and strings *)

\* Code-point order of the characters the model uses (ASCII order).
Alphabet == ".0123456789ABCDEFGHIJKLMNOPQRSTUVWXYZ_abcdefghijklmnopqrstuvwxyz|"

Ch(s, i) == SubSeq(s, i, i)

\* character -> its rank in Alphabet
Rank ==
    [c \in {Ch(Alphabet, i) : i \in 1..Len(Alphabet)} |->
        CHOOSE i \in 1..Len(Alphabet) : Ch(Alphabet, i) = c]

Ord(c) == Rank[c]

IsUpper(c) == c \in DOMAIN Rank /\ Rank[c] >= 12 /\ Rank[c] <= 37

\* str.lower() on one character
LowerCh(c) == IF IsUpper(c) THEN Ch(Alphabet, Ord(c) + 27) ELSE c

RECURSIVE Lower(_)
\* str.lower()
Lower(s) ==
    IF s = "" THEN "" ELSE LowerCh(Ch(s, 1)) \o Lower(SubSeq(s, 2, Len(s)))

RECURSIVE StrLess(_, _)
\* Python's < on str: lexicographic by code point, a proper prefix is smaller
StrLess(a, b) ==
    IF b = "" THEN FALSE
    ELSE IF a = "" THEN TRUE
    ELSE IF Ch(a, 1) = Ch(b, 1)
         THEN StrLess(SubSeq(a, 2, Len(a)), SubSeq(b, 2, Len(b)))
         ELSE Ord(Ch(a, 1)) < Ord(Ch(b, 1))

\* Python's `sub in s`
Contains(sub, s) ==
    \E i \in 0..(Len(s) - Len(sub)) : SubSeq(s, i + 1, i + Len(sub)) = sub

RECURSIVE Replace(_, _, _)
\* str.replace(old, new): every non-overlapping occurrence, left to right
Replace(s, old, new) ==
    IF Len(s) < Len(old) THEN s
    ELSE IF SubSeq(s, 1, Len(old)) = old
         THEN new \o Replace(SubSeq(s, Len(old) + 1, Len(s)), old, new)
         ELSE Ch(s, 1) \o Replace(SubSeq(s, 2, Len(s)), old, new)

RECURSIVE Split(_, _)
\* str.split(sep) for a one-character separator: "a||b" -> a, "", b
Split(s, sep) ==
    IF ~Contains(sep, s) THEN <<s>>
    ELSE LET i == CHOOSE k \in 1..Len(s) :
                      /\ Ch(s, k) = sep
                      /\ \A m \in 1..(k - 1) : Ch(s, m) # sep
         IN  <<SubSeq(s, 1, i - 1)>> \o Split(SubSeq(s, i + 1, Len(s)), sep)

RECURSIVE Join(_, _)
\* sep.join(parts)
Join(parts, sep) ==
    IF parts = <<>> THEN ""
    ELSE IF Len(parts) = 1 THEN parts[1]
    ELSE parts[1] \o sep \o Join(Tail(parts), sep)

Max2(a, b) == IF a >= b THEN a ELSE b

----------------------------------------------------------------------------
(* fuzz.ratio: int(round(100 * 2 * M / T)), M the number of matched         *)
(* characters (longest common subsequence), T the sum of the lengths; equal *)
(* strings score 100 and an empty string scores 0.  This is the ratio of    *)
(* fuzzywuzzy with python-Levenshtein; its difflib fallback counts the      *)
(* matched characters block by block and gives the same scores on the      *)
(* strings of this model.                                                   *)

RECURSIVE LcsRow(_, _, _, _)
\* one row of the dynamic programme: cur[j + 1] is the value for column j
LcsRow(c, b, prev, cur) ==
    IF Len(cur) > Len(b) THEN cur
    ELSE LcsRow(c, b, prev,
                Append(cur, IF Ch(b, Len(cur)) = c
                            THEN prev[Len(cur)] + 1
                            ELSE Max2(prev[Len(cur) + 1], cur[Len(cur)])))

RECURSIVE LcsRows(_, _, _, _)
LcsRows(a, b, i, prev) ==
    IF i > Len(a) THEN prev[Len(b) + 1]
    ELSE LcsRows(a, b, i + 1, LcsRow(Ch(a, i), b, prev, <<0>>))

Lcs(a, b) == LcsRows(a, b, 1, [j \in 1..(Len(b) + 1) |-> 0])

\* Python's round() of n / d: ties go to the even integer
RoundHalfEven(n, d) ==
    LET q == n \div d
        r == n % d
    IN  IF 2 * r < d THEN q
        ELSE IF 2 * r > d THEN q + 1
        ELSE IF q % 2 = 0 THEN q ELSE q + 1

ratio(a, b) ==
    IF a = b THEN 100
    ELSE IF a = "" \/ b = "" THEN 0
    ELSE RoundHalfEven(200 * Lcs(a, b), Len(a) + Len(b))

----------------------------------------------------------------------------
(* update_header *)

\* line 216: a candidate scoring above this is kept
Threshold == 70

\* lines 202-212: the rewrites applied to the lowercased title
HintRewrites ==
    << <<"post", "message">>,
       <<"comment", "message">>,
       <<"parentpostid", "replyof">>,
       <<"parentcommentid", "replyof">>,
       <<"university", "organisation">>,
       <<"company", "organisation">>,
       <<"locationplace", "place">>,
       <<"locationcity", "place">>,
       <<"containerforum", "forum">>,
       <<"partofplace", "containerplace">>,
       <<"creationdate", "joindate">> >>

\* line 168: t[0] raises IndexError when a part of table.split("_") is empty
PrefixRaises(tbl) ==
    \E i \in 1..Len(Split(tbl, "_")) : Split(tbl, "_")[i] = ""

RECURSIVE Initials(_)
Initials(parts) ==
    IF parts = <<>> THEN ""
    ELSE Lower(Ch(parts[1], 1)) \o Initials(Tail(parts))

\* line 168
Prefix(tbl) == Initials(Split(tbl, "_"))

\* lines 171-181: the titles of the header, "id" rewritten, prefixed
PrefixedTitles(tbl, hdr) ==
    LET initial_titles == Split(hdr, "|")
    IN  [i \in 1..Len(initial_titles) |->
            Prefix(tbl) \o "_" \o
            (IF initial_titles[i] = "id"
             THEN Lower(tbl) \o "id"
             ELSE initial_titles[i])]

\* lines 200-213: the set of hints of a title
Hints(raw_title) ==
    {raw_title} \cup
    {Replace(Lower(raw_title), HintRewrites[k][1], HintRewrites[k][2]) :
        k \in 1..Len(HintRewrites)}

\* lines 216-220: the any(...) of the keep condition; it ranges over every
\* column of the table and reads the lowercased title, not the hint
AnySubstring(low_title, table_schema) ==
    \E i \in 1..Len(table_schema) :
        \/ Contains(low_title, Lower(table_schema[i]))
        \/ Contains(Lower(table_schema[i]), low_title)

\* lines 214-222: is the candidate (score, col_name) appended
Kept(score, low_title, table_schema) ==
    score > Threshold \/ AnySubstring(low_title, table_schema)

\* lines 196-222: the (ratio, col_name) tuples appended for one title
TitleMatches(raw_title, table_schema) ==
    LET all == {<<ratio(h, table_schema[i]), table_schema[i]>> :
                    h \in Hints(raw_title), i \in 1..Len(table_schema)}
    IN  {m \in all : Kept(m[1], Lower(raw_title), table_schema)}

\* Python's < on (int, str) tuples
TupleLess(m, n) == m[1] < n[1] \/ (m[1] = n[1] /\ StrLess(m[2], n[2]))

\* line 225: sorted(title_matches, reverse=True)[0]
BestOf(S) == CHOOSE m \in S : \A n \in S : n = m \/ TupleLess(n, m)

\* line 225 for a title whose list of candidates is tm: no entry when the
\* list is empty, else the head of the list sorted in descending order
BestEntry(t, tm) == IF tm = {} THEN {} ELSE {<<t, BestOf(tm)>>}

\* lines 195-225: title -> its best candidate, for the titles that have one
\* (only the first entry of each sorted list is read, at lines 229 and 233)
BestMatches(titles, table_schema) ==
    LET entries == UNION {BestEntry(titles[i],
                                    TitleMatches(titles[i], table_schema)) :
                              i \in 1..Len(titles)}
    IN  [t \in {e[1] : e \in entries} |->
            (CHOOSE e \in entries : e[1] = t)[2]]

\* insertion order of a dict key: the first position of the title
FirstIdx(titles, t) ==
    CHOOSE i \in 1..Len(titles) :
        titles[i] = t /\ \A k \in 1..(i - 1) : titles[k] # t

\* lines 228-230: the titles kept by the stable descending sort cut to
\* len(table_schema) entries
BestGuesses(titles, best, n) ==
    {t \in DOMAIN best :
        Cardinality({u \in DOMAIN best :
            \/ TupleLess(best[t], best[u])
            \/ /\ best[u] = best[t]
               /\ FirstIdx(titles, u) < FirstIdx(titles, t)}) < n}

\* list.index: 1-based position of the first occurrence
IndexOf(seq, x) ==
    CHOOSE i \in 1..Len(seq) : seq[i] = x /\ \A k \in 1..(i - 1) : seq[k] # x

\* line 246 storing the position counted from one
SetIndex_OneBased(cols, schema_col_idx, idx) ==
    [cols EXCEPT ![schema_col_idx] = idx]

\* line 246 keeping the index already stored for the column
SetIndex_FirstWins(cols, schema_col_idx, idx) ==
    IF cols[schema_col_idx] # -1 THEN cols
    ELSE [cols EXCEPT ![schema_col_idx] = idx - 1]

\* line 246: cols_indices[schema_col_idx] = idx (idx is 0-based)
SetIndex(cols, schema_col_idx, idx) ==
    [cols EXCEPT ![schema_col_idx] = idx - 1]

RECURSIVE FillIndices(_, _, _, _, _)
\* lines 239-246: the loop over the titles, idx running from 1 to Len(titles)
FillIndices(titles, m, table_schema, idx, cols) ==
    IF idx > Len(titles) THEN cols
    ELSE FillIndices(titles, m, table_schema, idx + 1,
            IF titles[idx] \in DOMAIN m
            THEN SetIndex(cols, IndexOf(table_schema, m[titles[idx]]), idx)
            ELSE cols)

\* lines 238-243: the positions (1-based) of the titles without a match
NotFound(titles, m) == {i \in 1..Len(titles) : titles[i] \notin DOMAIN m}

\* cols_indices == sorted(cols_indices)
IsSorted(cols) == \A i \in 1..(Len(cols) - 1) : cols[i] <= cols[i + 1]

\* lines 248-266: the plan is cleared only on the last branch
Finalize(cols, not_found) ==
    IF not_found # {} THEN cols
    ELSE IF \E i \in 1..Len(cols) : cols[i] = -1 THEN cols
    ELSE IF IsSorted(cols) THEN <<>>
    ELSE cols

\* line 165 returning the joined (empty) list of new titles
UnknownSchema_NoHeader(hdr) ==
    [raised |-> FALSE, header |-> "", cols |-> <<>>,
     titles |-> <<>>, matches |-> <<>>, scores |-> <<>>]

\* lines 158-165: the result for a table that is not a key of the schema
UnknownSchema(hdr) ==
    [raised |-> FALSE, header |-> hdr, cols |-> <<>>,
     titles |-> <<>>, matches |-> <<>>, scores |-> <<>>]

\* line 168 raising: nothing is returned
Raised ==
    [raised |-> TRUE, header |-> "", cols |-> <<>>,
     titles |-> <<>>, matches |-> <<>>, scores |-> <<>>]

\* lines 235-268: the returned tuple (header, cols) once the matches m are
\* known; titles, matches and scores are the locals raw_titles, matches
\* and the score of best_matches[title][0] at the return
MakeHeader(table_schema, titles, best, m) ==
    [raised |-> FALSE,
     header |-> Join(table_schema, "|"),
     cols |-> Finalize(FillIndices(titles, m, table_schema, 1,
                                   [i \in 1..Len(table_schema) |-> -1]),
                       NotFound(titles, m)),
     titles |-> titles,
     matches |-> m,
     scores |-> [t \in DOMAIN m |-> best[t][1]]]

\* lines 227-233: the best guesses, back to a dictionary title -> column
GuessAndMake(table_schema, titles, best) ==
    MakeHeader(table_schema, titles, best,
               [t \in BestGuesses(titles, best, Len(table_schema)) |->
                    best[t][2]])

\* lines 194-268 on the prefixed titles
MatchAndMake(table_schema, titles) ==
    GuessAndMake(table_schema, titles, BestMatches(titles, table_schema))

\* lines 152-268
update_header(tbl, sch, hdr) ==
    IF Lower(tbl) \notin DOMAIN sch THEN UnknownSchema(hdr)
    ELSE IF PrefixRaises(tbl) THEN Raised
    ELSE MatchAndMake(sch[Lower(tbl)], PrefixedTitles(tbl, hdr))

----------------------------------------------------------------------------
(* parse_schema *)

RECURSIVE StripLeft(_)
StripLeft(s) ==
    IF s # "" /\ Ch(s, 1) = " " THEN StripLeft(SubSeq(s, 2, Len(s))) ELSE s

RECURSIVE StripRight(_)
StripRight(s) ==
    IF s # "" /\ Ch(s, Len(s)) = " "
    THEN StripRight(SubSeq(s, 1, Len(s) - 1)) ELSE s

\* str.strip(): the lines of the model hold no other white space than " "
Strip(s) == StripRight(StripLeft(s))

\* does p occur in s at position i
StartsWithAt(s, i, p) ==
    i + Len(p) - 1 <= Len(s) /\ SubSeq(s, i, i + Len(p) - 1) = p

\* \w of the regular expression
IsWordCh(c) ==
    c \in DOMAIN Rank /\ Rank[c] >= 2 /\ Rank[c] <= Len(Alphabet) - 1

RECURSIVE WordRun(_, _)
\* the number of \w characters of s from position j on
WordRun(s, j) ==
    IF j <= Len(s) /\ IsWordCh(Ch(s, j)) THEN 1 + WordRun(s, j + 1) ELSE 0

\* line 58: does r"create table (\w+) \(" match at position i
MatchesAt(s, i) ==
    /\ StartsWithAt(s, i, "create table ")
    /\ WordRun(s, i + 13) >= 1
    /\ StartsWithAt(s, i + 13 + WordRun(s, i + 13), " (")

\* line 59: re.search found a match
HasMatch(s) == \E i \in 1..Len(s) : MatchesAt(s, i)

\* line 61: group 1 of the leftmost match
MatchGroup(s) ==
    LET i == CHOOSE k \in 1..Len(s) :
                 MatchesAt(s, k) /\ \A m \in 1..(k - 1) : ~MatchesAt(s, m)
    IN  SubSeq(s, i + 13, i + 12 + WordRun(s, i + 13))

\* line 66: line.split()[0] of a stripped line; raises IndexError on ""
FirstToken(s) ==
    IF Contains(" ", s) THEN Split(s, " ")[1] ELSE s

\* line 41
Cleaned(raw) == Lower(Strip(raw))

\* lines 42-67: the branch taken for a cleaned line
Branch(l, comment, in_table) ==
    IF Contains("/*", l) THEN "open"
    ELSE IF Contains("*/", l) THEN "close"
    ELSE IF comment THEN "ignored"
    ELSE IF l = ");" THEN "end"
    ELSE IF StartsWithAt(l, 1, "create table ")
         THEN (IF HasMatch(l) THEN "table" ELSE "nomatch")
    ELSE IF in_table THEN (IF l = "" THEN "raise" ELSE "column")
    ELSE "other"

\* line 63: schema[table] = table_schema (a new, empty list)
NewTable(sch, name) ==
    [t \in DOMAIN sch \cup {name} |-> IF t = name THEN <<>> ELSE sch[t]]

\* line 67: table_schema.append(col_name); the list is the one stored in
\* the schema at line 63
AppendColumn(sch, name, col) == [sch EXCEPT ![name] = Append(@, col)]

----------------------------------------------------------------------------
(* find_closest and the table resolution of merge_files *)

\* the candidates with the best score, the first of them in list order
find_closest_first(value, possible_values) ==
    possible_values[CHOOSE i \in 1..Len(possible_values) :
        /\ \A k \in 1..Len(possible_values) :
              ratio(value, possible_values[k]) <= ratio(value, possible_values[i])
        /\ \A k \in 1..(i - 1) :
              ratio(value, possible_values[k]) < ratio(value, possible_values[i])]

\* lines 279-282: max() of the (ratio, value) tuples, for a non-empty list
find_closest(value, possible_values) ==
    BestOf({<<ratio(value, possible_values[i]), possible_values[i]>> :
                i \in 1..Len(possible_values)})[2]

\* lines 279-282: max() of an empty sequence raises ValueError
FindClosestRaises(possible_values) == possible_values = <<>>

\* list(csv_table): the keys in insertion order
Keys(ct) == [i \in 1..Len(ct) |-> ct[i][1]]

\* csv_table[name]
Lookup(ct, name) == ct[CHOOSE i \in 1..Len(ct) : ct[i][1] = name][2]

\* lines 300-304: the tuple of candidates, built before the loop reads it
Candidates(stem, ct, close) == <<stem, Lower(stem), Lookup(ct, close)>>

\* lines 300-317: the first candidate that is a key of the schema, else the
\* for loop's else branch
PickTableName(cands, sch, stem) ==
    IF \E i \in 1..Len(cands) : cands[i] \in DOMAIN sch
    THEN cands[CHOOSE i \in 1..Len(cands) :
                  /\ cands[i] \in DOMAIN sch
                  /\ \A k \in 1..(i - 1) : cands[k] \notin DOMAIN sch]
    ELSE stem

----------------------------------------------------------------------------
(* merge_files: the rewriting of one row *)

\* lines 347-350: line[col_idx] raises IndexError on a row that is too short
RowRaises(row, cols) ==
    \E k \in 1..Len(cols) : cols[k] # -1 /\ cols[k] >= Len(row)

\* lines 347-350
SelectColumns(row, cols) ==
    [k \in 1..Len(cols) |-> IF cols[k] # -1 THEN row[cols[k] + 1] ELSE ""]

\* line 344: the length of the window of the last written rows
UniqWindow == 5000

\* line 351: line in last_line
InWindow(l, out) ==
    \E i \in 1..Len(out) : i > Len(out) - UniqWindow /\ out[i] = l

RECURSIVE WriteRows(_, _, _)
\* lines 346-354: the rows rewritten one by one until one of them raises
WriteRows(rows, cols, out) ==
    IF rows = <<>> THEN [raised |-> FALSE, out |-> out]
    ELSE IF RowRaises(Head(rows), cols) THEN [raised |-> TRUE, out |-> out]
    ELSE WriteRows(Tail(rows), cols,
                   IF InWindow(SelectColumns(Head(rows), cols), out) THEN out
                   ELSE Append(out, SelectColumns(Head(rows), cols)))

\* lines 335-354: the rows copied under an empty plan, rewritten otherwise
MergeRows(tname, r, rows) ==
    IF r.raised
    THEN [raised |-> TRUE, table |-> tname, header |-> "", cols |-> <<>>,
          out |-> <<>>]
    ELSE IF r.cols = <<>>
    THEN [raised |-> FALSE, table |-> tname, header |-> r.header,
          cols |-> r.cols, out |-> rows]
    ELSE [raised |-> WriteRows(rows, r.cols, <<>>).raised, table |-> tname,
          header |-> r.header, cols |-> r.cols,
          out |-> WriteRows(rows, r.cols, <<>>).out]

\* lines 319-354 once the table name is known
MergeAs(tname, sch, hdr, rows) ==
    MergeRows(tname, update_header(tname, sch, hdr), rows)

\* lines 285-354: merge_files(folder, output_file, schema, csv_table) for a
\* non-empty loader index; hdr is the header of the first CSV file of the
\* folder, rows the data rows of its files
merge_files(stem, out_name, sch, ct, hdr, rows) ==
    MergeAs(PickTableName(Candidates(stem, ct,
                                     find_closest(out_name, Keys(ct))),
                          sch, stem),
            sch, hdr, rows)

IdleR ==
    /\ dataset = <<>>
    /\ part = 0
    /\ child = 0
    /\ nb_files = 0
    /\ written = <<>>

IdleP ==
    /\ ddl = <<>>
    /\ in_fd = <<>>
    /\ lineno = 0
    /\ in_comment = FALSE
    /\ in_table_schema = FALSE

IdleT ==
    /\ folder = ""
    /\ output_file = ""
    /\ csv_table = <<>>
    /\ closest = ""

----------------------------------------------------------------------------
(* The header reconciliation on its own: every table of Tables, every      *)
(* header of at most MaxTitles titles of Titles, then one row.             *)

MaxTitles == 3

Tables == {"person", "Person", "message", "place", "tag_", "Nope_"}

Titles == {"id", "name", "Name", "comment", "message"}

\* a schema as parse_schema returns it: table name -> columns
SchemaH ==
    [t \in {"person", "message", "place", "tag_"} |->
        CASE t = "person" -> <<"p_personid", "p_name">>
          [] t = "message" -> <<"m_comment", "m_message">>
          [] t = "place" -> <<"id", "p_name">>
          [] t = "tag_" -> <<"t_name">>]

\* the headers: the titles joined by the delimiter
Headers ==
    {Join(ts, "|") : ts \in UNION {[1..n -> Titles] : n \in 1..MaxTitles}}

\* a data row of n cells, each cell naming its position
Row(n) == [i \in 1..n |-> "v" \o Ch("0123456789", i)]

InitH ==
    /\ pc = "start"
    /\ schema = SchemaH
    /\ table \in Tables
    /\ header \in Headers
    /\ raw_titles = <<>>
    /\ matches = <<>>
    /\ scores = <<>>
    /\ new_header = ""
    /\ cols_indices = <<>>
    /\ line = <<>>
    /\ out_line = <<>>
    /\ IdleT
    /\ IdleP
    /\ IdleR

\* merge_files lines 325-328: the call of update_header
CallUpdateHeader ==
    /\ pc = "start"
    /\ \E r \in {update_header(table, schema, header)} :
           /\ pc' = IF r.raised THEN "header_raised" ELSE "returned"
           /\ raw_titles' = r.titles
           /\ matches' = r.matches
           /\ scores' = r.scores
           /\ new_header' = r.header
           /\ cols_indices' = r.cols
    /\ UNCHANGED <<schema, table, header, line, out_line, tvars, pvars, rvars>>

\* merge_files lines 335-354 for one row: copied as it is under an empty
\* plan, rewritten otherwise
MergeRow ==
    /\ pc = "returned"
    /\ \E n \in {Len(Split(header, "|")) - 1, Len(Split(header, "|"))} :
          /\ line' = Row(n)
          /\ IF cols_indices = <<>>
             THEN pc' = "written" /\ out_line' = Row(n)
             ELSE IF RowRaises(Row(n), cols_indices)
                  THEN pc' = "row_raised" /\ out_line' = <<>>
                  ELSE /\ pc' = "written"
                       /\ out_line' = SelectColumns(Row(n), cols_indices)
    /\ UNCHANGED <<schema, table, header, raw_titles, matches, scores, new_header,
                   cols_indices, tvars, pvars, rvars>>

NextH == CallUpdateHeader \/ MergeRow

SpecH == InitH /\ [][NextH]_vars

----------------------------------------------------------------------------
(* Properties of the header reconciliation (checked under SpecH) *)

Known == Lower(table) \in DOMAIN schema

Returned == pc \in {"returned", "written", "row_raised"}

\* the positions (1-based) of the titles mapped to the column col
Claimers(col) ==
    {i \in 1..Len(raw_titles) :
        raw_titles[i] \in DOMAIN matches /\ matches[raw_titles[i]] = col}

\* C1: a header whose prefixed titles equal the schema columns position by
\* position gets an empty selection plan and the canonical header.
C1_AlignedHeaderNeedsNoReorder ==
    (Returned /\ Known /\ raw_titles = schema[Lower(table)])
        => (cols_indices = <<>>
            /\ new_header = Join(schema[Lower(table)], "|"))

\* C2: a non-empty plan has one entry per schema column, each -1 or an index
\* into the raw titles; applied to a row as long as the raw header it gives a
\* row as long as the schema, "" at the -1 positions and the source value at
\* the others, and it does not fail.
C2_PlanSelectsValidColumns ==
    (Returned /\ Known /\ cols_indices # <<>>)
        => /\ Len(cols_indices) = Len(schema[Lower(table)])
           /\ \A k \in 1..Len(cols_indices) :
                 \/ cols_indices[k] = -1
                 \/ (0 <= cols_indices[k] /\ cols_indices[k] < Len(raw_titles))
           /\ (pc \in {"written", "row_raised"}
               /\ Len(line) = Len(raw_titles))
                 => /\ pc = "written"
                    /\ Len(out_line) = Len(schema[Lower(table)])
                    /\ \A k \in 1..Len(cols_indices) :
                          out_line[k] = IF cols_indices[k] = -1 THEN ""
                                        ELSE line[cols_indices[k] + 1]

\* C2 witness: a plan with a hole and a source column, applied to a full row
C2_Witness ==
    /\ pc = "written"
    /\ Known
    /\ Len(line) = Len(raw_titles)
    /\ \E k \in 1..Len(cols_indices) : cols_indices[k] = -1
    /\ \E k \in 1..Len(cols_indices) : cols_indices[k] > 0

\* C7: for a table whose lowercased name is not a key of the schema the
\* header is returned unchanged with an empty plan, the schema is left as it
\* was and nothing fails.
C7_UnknownTablePassThrough ==
    (pc # "start" /\ Lower(table) \notin DOMAIN SchemaH)
        => /\ new_header = header
           /\ cols_indices = <<>>
           /\ schema = SchemaH
           /\ pc \in {"returned", "written"}
           /\ (pc = "written" => out_line = line)

\* C7 witness: an unknown table whose row was copied
C7_Witness ==
    /\ pc = "written"
    /\ ~Known
    /\ Len(Split(header, "|")) > 1
    /\ out_line = line

\* C8 as claimed: when several kept titles have the same best column, the
\* plan records for that column the index of the first of them.
C8_FirstClaimerWins ==
    (Returned /\ Known /\ cols_indices # <<>>)
        => \A t \in DOMAIN matches :
              Cardinality(Claimers(matches[t])) >= 2
                => cols_indices[IndexOf(schema[Lower(table)], matches[t])]
                     = (CHOOSE i \in Claimers(matches[t]) :
                            \A k \in Claimers(matches[t]) : i <= k) - 1

\* C8 amended: the plan records for that column the index of the last of
\* the titles mapped to it (a later title replaces an earlier one).
C8_LastClaimerWins ==
    (Returned /\ Known /\ cols_indices # <<>>)
        => \A t \in DOMAIN matches :
              Cardinality(Claimers(matches[t])) >= 2
                => cols_indices[IndexOf(schema[Lower(table)], matches[t])]
                     = (CHOOSE i \in Claimers(matches[t]) :
                            \A k \in Claimers(matches[t]) : i >= k) - 1

\* C8 witness: two different titles mapped to one column, the plan kept
C8_Witness ==
    /\ Returned
    /\ Known
    /\ cols_indices # <<>>
    /\ \E t \in DOMAIN matches, u \in DOMAIN matches :
          t # u /\ matches[t] = matches[u]

\* C9: a title is mapped to a column only if one of its hints scores above
\* 70 with that column or is in a substring relation with it.
C9_MappedOnlyToCloseColumn ==
    (Returned /\ Known)
        => \A t \in DOMAIN matches :
              \E h \in Hints(t) :
                 \/ ratio(h, matches[t]) > Threshold
                 \/ Contains(Lower(h), matches[t])
                 \/ Contains(matches[t], Lower(h))

\* C10: an empty plan for a known table means that the raw header has as
\* many titles as the schema has columns and that the title at each position
\* is mapped to the column at that position.
C10_EmptyPlanMeansAligned ==
    (Returned /\ Known /\ cols_indices = <<>>)
        => /\ Len(raw_titles) = Len(schema[Lower(table)])
           /\ \A i \in 1..Len(raw_titles) :
                 /\ raw_titles[i] \in DOMAIN matches
                 /\ matches[raw_titles[i]] = schema[Lower(table)][i]

----------------------------------------------------------------------------
(* The table resolution on its own: merge_files lines 299-317 for every    *)
(* folder of Stems, output file of OutNames and loader index of at most    *)
(* MaxCopy COPY statements of CopyLines.                                   *)

MaxCopy == 2

Stems == {"person", "Person", "msg", "nope"}

OutNames == {"msg.csv", "nope"}

\* (CSV file name, table) as table_files reads them from the COPY lines
CopyLines ==
    { <<"person.csv", "person">>, <<"place.csv", "place">>,
      <<"knows.csv", "knows">>, <<"msg.csv", "message">> }

\* a dict holds each key once
CsvTables ==
    {ct \in UNION {[1..n -> CopyLines] : n \in 0..MaxCopy} :
        \A i \in 1..Len(ct), k \in 1..Len(ct) : i # k => ct[i][1] # ct[k][1]}

IdleH ==
    /\ table = ""
    /\ header = ""
    /\ raw_titles = <<>>
    /\ matches = <<>>
    /\ scores = <<>>
    /\ new_header = ""
    /\ cols_indices = <<>>
    /\ line = <<>>
    /\ out_line = <<>>

InitT ==
    /\ pc = "resolve"
    /\ schema = SchemaH
    /\ folder \in Stems
    /\ output_file \in OutNames
    /\ csv_table \in CsvTables
    /\ closest = ""
    /\ IdleH
    /\ IdleP
    /\ IdleR

\* lines 300-304: the third candidate needs find_closest, which raises on an
\* empty loader index before any candidate is looked up in the schema
EvalCandidates ==
    /\ pc = "resolve"
    /\ IF FindClosestRaises(Keys(csv_table))
       THEN pc' = "resolve_raised" /\ closest' = closest
       ELSE /\ pc' = "candidates"
            /\ closest' = find_closest(output_file, Keys(csv_table))
    /\ UNCHANGED <<schema, table, header, raw_titles, matches, scores,
                   new_header, cols_indices, line, out_line, folder,
                   output_file, csv_table, pvars, rvars>>

\* lines 300-317: the loop over the candidates and its else branch
PickTable ==
    /\ pc = "candidates"
    /\ pc' = "resolved"
    /\ table' = PickTableName(Candidates(folder, csv_table, closest),
                              schema, folder)
    /\ UNCHANGED <<schema, header, raw_titles, matches, scores, new_header,
                   cols_indices, line, out_line, tvars, pvars, rvars>>

NextT == EvalCandidates \/ PickTable

SpecT == InitT /\ [][NextT]_vars

\* the similarity of the output file name to the i-th key of the index
Sim(i) == ratio(output_file, Keys(csv_table)[i])

\* C3: the resolution never fails and gives the first of: the folder name,
\* the folder name lowercased, the loader-index table of the closest file
\* name, that is a key of the schema; the folder name when none is.  A folder
\* name that is a key resolves to itself whatever the loader index.
C3_OrderedFallbackNeverFails ==
    (pc # "resolve")
        => /\ (folder \in DOMAIN schema) => pc \in {"candidates", "resolved"}
           /\ (pc = "resolved")
                => table =
                     IF folder \in DOMAIN schema THEN folder
                     ELSE IF Lower(folder) \in DOMAIN schema
                          THEN Lower(folder)
                     ELSE IF Lookup(csv_table, closest) \in DOMAIN schema
                          THEN Lookup(csv_table, closest)
                     ELSE folder

\* C4 as claimed: the result has the best similarity and is the first of the
\* candidates that have it.
C4_ClosestIsFirstOfBest ==
    (pc \in {"candidates", "resolved"})
        => \E i \in 1..Len(csv_table) :
              /\ closest = Keys(csv_table)[i]
              /\ \A k \in 1..Len(csv_table) : Sim(k) <= Sim(i)
              /\ \A k \in 1..(i - 1) : Sim(k) < Sim(i)

\* C4 amended: the result has the best similarity and is, among the
\* candidates that have it, the greatest in string order.
C4_ClosestIsGreatestOfBest ==
    (pc \in {"candidates", "resolved"})
        => \E i \in 1..Len(csv_table) :
              /\ closest = Keys(csv_table)[i]
              /\ \A k \in 1..Len(csv_table) : Sim(k) <= Sim(i)
              /\ \A k \in 1..Len(csv_table) :
                    (Sim(k) = Sim(i) /\ k # i)
                       => StrLess(Keys(csv_table)[k], Keys(csv_table)[i])

\* C4 witness: two candidates share the best similarity and the result is
\* the one that comes later in the list
C4_Witness ==
    /\ pc = "candidates"
    /\ \E i \in 1..Len(csv_table), k \in 1..Len(csv_table) :
          /\ k < i
          /\ closest = Keys(csv_table)[i]
          /\ Sim(k) = Sim(i)

----------------------------------------------------------------------------
(* The schema parser on its own: every schema file made of at most         *)
(* MaxBlocks blocks of Blocks.                                             *)

MaxBlocks == 3

\* the blocks a schema file is made of: table definitions, block comments
\* on several lines and on one line, a table definition holding an empty line
Blocks == {"person", "tag", "place", "comment", "comment1"}

BlockLines(b) ==
    CASE b = "person" -> << "CREATE TABLE person (",
                            "    p_personid bigint not null,",
                            "    p_name varchar not null",
                            ");" >>
      [] b = "tag" -> << "create table tag (",
                         "    t_name varchar",
                         ");" >>
      [] b = "place" -> << "create table place (",
                           "    pl_placeid bigint,",
                           "",
                           "    pl_name varchar",
                           ");" >>
      [] b = "comment" -> << "/*",
                             "create table old (",
                             "    o_id bigint",
                             ");",
                             "*/" >>
      [] b = "comment1" -> << "/* tables of the benchmark */" >>

\* what a table block declares: its columns in source order
BlockColumns(b) ==
    CASE b = "person" -> <<"p_personid", "p_name">>
      [] b = "tag" -> <<"t_name">>
      [] b = "place" -> <<"pl_placeid", "pl_name">>

TableBlocks == {"person", "tag", "place"}

RECURSIVE Flatten(_)
Flatten(bs) ==
    IF bs = <<>> THEN <<>> ELSE BlockLines(bs[1]) \o Flatten(Tail(bs))

InitP ==
    /\ pc = "parsing"
    /\ ddl \in UNION {[1..n -> Blocks] : n \in 1..MaxBlocks}
    /\ in_fd = Flatten(ddl)
    /\ lineno = 0
    /\ in_comment = FALSE
    /\ in_table_schema = FALSE
    /\ schema = <<>>
    /\ IdleH
    /\ IdleT
    /\ IdleR

\* lines 40-67: one iteration of the loop over the lines of the file
ReadLine ==
    /\ pc = "parsing"
    /\ lineno < Len(in_fd)
    /\ lineno' = lineno + 1
    /\ \E b \in {Branch(Cleaned(in_fd[lineno + 1]), in_comment,
                        in_table_schema)} :
          /\ pc' = IF b = "raise" THEN "parse_raised" ELSE "parsing"
          /\ in_comment' = CASE b = "open" -> TRUE
                             [] b = "close" -> FALSE
                             [] OTHER -> in_comment
          /\ in_table_schema' = CASE b = "end" -> FALSE
                                  [] b = "table" -> TRUE
                                  [] OTHER -> in_table_schema
          /\ table' = IF b = "table"
                      THEN MatchGroup(Cleaned(in_fd[lineno + 1]))
                      ELSE table
          /\ schema' =
               CASE b = "table" ->
                      NewTable(schema, MatchGroup(Cleaned(in_fd[lineno + 1])))
                 [] b = "column" ->
                      AppendColumn(schema, table,
                                   FirstToken(Cleaned(in_fd[lineno + 1])))
                 [] OTHER -> schema
    /\ UNCHANGED <<header, raw_titles, matches, scores, new_header,
                   cols_indices, line, out_line, tvars, ddl, in_fd,
                   rvars>>

\* line 69: the end of the file is reached
ParseReturn ==
    /\ pc = "parsing"
    /\ lineno = Len(in_fd)
    /\ pc' = "parsed"
    /\ UNCHANGED <<schema, table, header, raw_titles, matches, scores,
                   new_header, cols_indices, line, out_line, tvars, pvars,
                   rvars>>

NextP == ReadLine \/ ParseReturn

SpecP == InitP /\ [][NextP]_vars

\* the table blocks of the file
DeclaredTables == {ddl[i] : i \in {k \in 1..Len(ddl) : ddl[k] \in TableBlocks}}

\* C6: a schema file of N table blocks with distinct names parses without
\* failing into exactly N entries, each with the columns of its block in
\* source order; comment blocks contribute nothing and end at the line
\* holding the close marker, also when it holds the open marker; empty lines
\* inside a table block are skipped.
C6_ParseReturnsEveryTable ==
    /\ pc # "parse_raised"
    /\ (pc = "parsed"
        /\ \A i \in 1..Len(ddl), k \in 1..Len(ddl) :
              (i # k /\ ddl[i] \in TableBlocks) => ddl[i] # ddl[k])
         => /\ DOMAIN schema = DeclaredTables
            /\ \A t \in DeclaredTables : schema[t] = BlockColumns(t)

----------------------------------------------------------------------------
(* run: the loop over the children of root/static and root/dynamic, each   *)
(* part holding at most MaxChildren children of Children.                  *)

MaxChildren == 2

\* the loader index and the schema of the run
CsvRun ==
    << <<"person.csv", "person">>, <<"place.csv", "place">>,
       <<"tag.csv", "tag_">> >>

\* a child of a part: a plain file, or a folder with the header of its first
\* CSV file and the lengths of its data rows
Children ==
    { [is_dir |-> FALSE, stem |-> "readme", header |-> "", rows |-> <<>>],
      [is_dir |-> TRUE, stem |-> "person", header |-> "id|name",
       rows |-> <<2, 2>>],
      [is_dir |-> TRUE, stem |-> "Person", header |-> "name|id",
       rows |-> <<2, 1>>],
      [is_dir |-> TRUE, stem |-> "place", header |-> "name|id",
       rows |-> <<2, 2>>],
      [is_dir |-> TRUE, stem |-> "tag_", header |-> "name", rows |-> <<1>>] }

ChildLists == UNION {[1..n -> Children] : n \in 1..MaxChildren}

RowsOf(c) == [i \in 1..Len(c.rows) |-> Row(c.rows[i])]

\* the child the loop is at
Current == dataset[part][child + 1]

InitR ==
    /\ pc = "run"
    /\ schema = SchemaH
    /\ csv_table = CsvRun
    /\ dataset \in ChildLists \X ChildLists
    /\ part = 1
    /\ child = 0
    /\ nb_files = 0
    /\ written = <<>>
    /\ folder = ""
    /\ output_file = ""
    /\ closest = ""
    /\ IdleH
    /\ IdleP

\* the result of lines 385-393 for the current child
MergeCurrent ==
    merge_files(Current.stem, find_closest(Current.stem, Keys(csv_table)),
                schema, csv_table, Current.header, RowsOf(Current))

\* lines 382-394 for a folder: merge_files returns
MergeChild ==
    /\ pc = "run"
    /\ child < Len(dataset[part])
    /\ Current.is_dir
    /\ \E m \in {MergeCurrent} :
          /\ ~m.raised
          /\ table' = m.table
          /\ new_header' = m.header
          /\ cols_indices' = m.cols
          /\ written' = m.out
    /\ folder' = Current.stem
    /\ output_file' = find_closest(Current.stem, Keys(csv_table))
    /\ header' = Current.header
    /\ nb_files' = nb_files + 1
    /\ child' = child + 1
    /\ UNCHANGED <<pc, schema, raw_titles, matches, scores, line, out_line,
                   csv_table, closest, pvars, dataset, part>>

\* lines 382-393 for a folder: merge_files raises; run has no handler, the
\* exception leaves run
MergeChildRaises ==
    /\ pc = "run"
    /\ child < Len(dataset[part])
    /\ Current.is_dir
    /\ \E m \in {MergeCurrent} :
          /\ m.raised
          /\ table' = m.table
          /\ written' = m.out
    /\ folder' = Current.stem
    /\ output_file' = find_closest(Current.stem, Keys(csv_table))
    /\ header' = Current.header
    /\ child' = child + 1
    /\ pc' = "run_raised"
    /\ UNCHANGED <<schema, raw_titles, matches, scores, new_header,
                   cols_indices, line, out_line, csv_table, closest, pvars,
                   dataset, part, nb_files>>

\* line 383: a child that is no folder is passed over
SkipFile ==
    /\ pc = "run"
    /\ child < Len(dataset[part])
    /\ ~Current.is_dir
    /\ child' = child + 1
    /\ UNCHANGED <<hvars, tvars, pvars, dataset, part, nb_files, written>>

\* line 379: from "static" to "dynamic"
NextPart ==
    /\ pc = "run"
    /\ part = 1
    /\ child = Len(dataset[1])
    /\ part' = 2
    /\ child' = 0
    /\ UNCHANGED <<hvars, tvars, pvars, dataset, nb_files, written>>

\* lines 396-397
RunReturn ==
    /\ pc = "run"
    /\ part = 2
    /\ child = Len(dataset[2])
    /\ pc' = "run_returned"
    /\ UNCHANGED <<schema, table, header, raw_titles, matches, scores,
                   new_header, cols_indices, line, out_line, tvars, pvars,
                   rvars>>

NextR == MergeChild \/ MergeChildRaises \/ SkipFile \/ NextPart \/ RunReturn

SpecR == InitR /\ [][NextR]_vars

\* C5: when run ends, by returning or by an exception, every child of
\* "static" and of "dynamic" has been visited: a failure of merge_files for
\* one folder does not keep the remaining folders from being processed.
C5_FailureDoesNotStopRun ==
    (pc \in {"run_returned", "run_raised"})
        => (part = 2 /\ child = Len(dataset[2]))

====
